---- MODULE Spec2Model ----
(***************************************************************************)
(* Calibrator flux resolution of SDRAST/Radio_Astronomy: the name          *)
(* resolver of vla_cal.py (get_cal_data, fix_IAU_name, match_IAU_name,      *)
(* IAU_name_parts, VLA_name_xref, get_cal_dict) and the flux resolver of    *)
(* radio_flux.py (get_calibrator_flux, get_planet_flux).                    *)
(*                                                                         *)
(* A Python str is a sequence of one-character strings.  A call either     *)
(* returns a value or raises; an outcome is the record                     *)
(*   [status |-> "return" | "raise", exc |-> <exception class>, value]     *)
(* whose value is a record: [name] for match_IAU_name, [name, type] for     *)
(* fix_IAU_name, the source record for get_cal_data, [flux] for             *)
(* get_planet_flux and [flux, ref] for get_calibrator_flux.                 *)
(***************************************************************************)
EXTENDS Integers, Sequences, FiniteSets, TLC

VARIABLES
  cal_data,    \* the VLA calibrator dictionary: J-name -> source record
  vla_cals,    \* state of the pickle file cal_dir+'VLA_cals'
  b_names,     \* state of the pickle file cal_dir+'B_names'
  c3_names,    \* state of the pickle file cal_dir+'3C_names'
  call,        \* the call in progress or just finished (NoCall when idle)
  result,      \* the outcome of that call
  michigan_tables, \* state of the pickle file cal_dir/michigan_tables.pkl
  table_links, \* michigan.table_links: "unbound" until the module is imported
  fetched,     \* what the Michigan database served to the call in progress
  previous,    \* the data served to, and the outcome of, the call before
  loaded,      \* the dictionary the call works on, as the call left it
  parser       \* get_VLA_calibrators: the locals of the loop over the lines

vars == <<cal_data, vla_cals, b_names, c3_names, call, result,
          michigan_tables, table_links, fetched, previous, loaded, parser>>

-----------------------------------------------------------------------------
(* Bounds of the model *)

\* the largest number of sources in a loaded calibrator dictionary
MaxSources == 2

\* observation dates are 1..MaxDate
MaxDate == 1

\* the samples of the Michigan database are taken at the times 1..MaxTime
MaxTime == 5

\* the largest number of lines of the VLA calibrator list
MaxLines == 4

-----------------------------------------------------------------------------
(* Python values *)

\* Python's None where a str is expected (no str is the 1-tuple <<"None">>:
\* the elements of a str are single characters); where one of the strings
\* "j", "b", "Planet", "positive" is expected, None is the string "None"
None == <<"None">>

\* the value of an outcome is a record; NoValue stands where there is none
NoValue == [none |-> TRUE]

Returned(v) == [status |-> "return", exc |-> "", value |-> v]
Raised(e)   == [status |-> "raise", exc |-> e, value |-> NoValue]

Digits == <<"0", "1", "2", "3", "4", "5", "6", "7", "8", "9">>
LowerLetters == <<"a","b","c","d","e","f","g","h","i","j","k","l","m",
                  "n","o","p","q","r","s","t","u","v","w","x","y","z">>
UpperLetters == <<"A","B","C","D","E","F","G","H","I","J","K","L","M",
                  "N","O","P","Q","R","S","T","U","V","W","X","Y","Z">>

IsDigit(c) == \E i \in 1..10 : Digits[i] = c
DigitVal(c) == (CHOOSE i \in 1..10 : Digits[i] = c) - 1

\* str.lower() and str.upper() of one character
lower(c) == IF \E i \in 1..26 : UpperLetters[i] = c
            THEN LowerLetters[CHOOSE i \in 1..26 : UpperLetters[i] = c]
            ELSE c
upper(c) == IF \E i \in 1..26 : LowerLetters[i] = c
            THEN UpperLetters[CHOOSE i \in 1..26 : LowerLetters[i] = c]
            ELSE c

\* str.capitalize(): first character upper case, the rest lower case
capitalize(s) == [i \in 1..Len(s) |-> IF i = 1 THEN upper(s[i]) ELSE lower(s[i])]

\* s[a:b] for 0 <= a, with Python's clipping; a negative b counts from the end
Slice(s, a, b) ==
  LET stop == IF b < 0 THEN (IF Len(s) + b < 0 THEN 0 ELSE Len(s) + b)
              ELSE (IF b > Len(s) THEN Len(s) ELSE b)
  IN  IF a >= stop THEN << >> ELSE SubSeq(s, a + 1, stop)

\* s[a:]
SliceFrom(s, a) == Slice(s, a, Len(s))

\* str.find(c): 0-based index of the first occurrence, -1 when there is none
find(s, c) ==
  IF \E i \in 1..Len(s) : s[i] = c
  THEN (CHOOSE i \in 1..Len(s) : s[i] = c /\ \A j \in 1..(i-1) : s[j] # c) - 1
  ELSE -1

Max2(a, b) == IF a >= b THEN a ELSE b
Abs(n) == IF n < 0 THEN -n ELSE n

RECURSIVE Pow10(_)
Pow10(n) == IF n <= 0 THEN 1 ELSE 10 * Pow10(n - 1)

RECURSIVE DigitsValue(_)
DigitsValue(s) == IF Len(s) = 0 THEN 0
                  ELSE 10 * DigitsValue(SubSeq(s, 1, Len(s) - 1)) + DigitVal(s[Len(s)])

AllDigits(s) == Len(s) >= 1 /\ \A i \in 1..Len(s) : IsDigit(s[i])

\* int(s) and float(s) succeed on an optional sign followed by digits; the names
\* of this model hold no white space, '.', or exponent, the other forms accepted
IsNumber(s) == \/ AllDigits(s)
               \/ Len(s) >= 2 /\ s[1] \in {"+", "-"} /\ AllDigits(Tail(s))
NumberValue(s) == IF s[1] = "-" THEN - DigitsValue(Tail(s))
                  ELSE IF s[1] = "+" THEN DigitsValue(Tail(s))
                  ELSE DigitsValue(s)

\* int(round(n / d)) for d = 10^k: Python 2 round() rounds halves away from zero
RoundDiv(n, d) == IF n >= 0 THEN (2 * n + d) \div (2 * d)
                  ELSE - ((2 * (-n) + d) \div (2 * d))

-----------------------------------------------------------------------------
(* Python floats.  The samples, frequencies and dates of the model are      *)
(* integers and quotients of integers; a float is the exact quotient        *)
(* <<numerator, denominator>> in lowest terms with a positive denominator.  *)

RECURSIVE Gcd(_, _)
Gcd(a, b) == IF b = 0 THEN a ELSE Gcd(b, a % b)

Rat(n, d) ==
  LET g == Gcd(Abs(n), Abs(d))
      s == IF d < 0 THEN -1 ELSE 1
  IN  <<(s * n) \div g, (s * d) \div g>>
Float(n) == <<n, 1>>
RatAdd(a, b) == LET g == Gcd(a[2], b[2])
                IN  Rat(a[1] * (b[2] \div g) + b[1] * (a[2] \div g), (a[2] \div g) * b[2])
RatMul(a, b) == LET x == Rat(a[1], b[2])
                    y == Rat(b[1], a[2])
                IN  <<x[1] * y[1], x[2] * y[2]>>
RatLess(a, b) == a[1] * b[2] < b[1] * a[2]

Lcm(a, b) == (a * b) \div Gcd(a, b)

\* the least common denominator of the floats of a list
RECURSIVE Denominator(_)
Denominator(xs) == IF Len(xs) = 0 THEN 1 ELSE Lcm(xs[1][2], Denominator(Tail(xs)))

\* the floats of a list as integer multiples of 1/L
Scaled(xs, L) == [i \in 1..Len(xs) |-> xs[i][1] * (L \div xs[i][2])]

\* sum of xs[i] * ys[i] over integers
RECURSIVE SumProducts(_, _)
SumProducts(xs, ys) ==
  IF Len(xs) = 0 THEN 0 ELSE xs[1] * ys[1] + SumProducts(Tail(xs), Tail(ys))

Ones(xs) == [i \in 1..Len(xs) |-> 1]

\* the least-squares line through points of integer coordinates (X/Lx, Y/Ly)
line_fit(X, Y, Lx, Ly) ==
  LET n   == Len(X)
      Sx  == SumProducts(X, Ones(X))
      Sy  == SumProducts(Y, Ones(Y))
      D   == n * SumProducts(X, X) - Sx * Sx
      N   == n * SumProducts(X, Y) - Sx * Sy
  IN  IF D = 0
      THEN [ar |-> Rat(Sy * Lx, 2 * n * X[1] * Ly), br |-> Rat(Sy, 2 * n * Ly)]
      ELSE [ar |-> Rat(N * Lx, D * Ly), br |-> Rat(Sy * D - N * Sx, n * D * Ly)]

\* polyfit(x, y, 1) of numpy: the least-squares line <<ar, br>>.  An empty x
\* raises TypeError ("expected non-empty vector for x").  When the x are all
\* one value x0 (a single point) the system is rank-deficient: lstsq gives the
\* minimum-norm solution on the scaled columns, ar = mean(y)/(2 x0) and
\* br = mean(y)/2, under a RankWarning.
polyfit(x, y) ==
  IF Len(x) = 0 \/ Len(x) # Len(y) THEN Raised("TypeError")
  ELSE Returned(line_fit(Scaled(x, Denominator(x)), Scaled(y, Denominator(y)),
                         Denominator(x), Denominator(y)))

\* polyval([ar, br], x)
polyval(p, x) == RatAdd(RatMul(p.ar, x), p.br)

-----------------------------------------------------------------------------
(* The VLA calibrator dictionary.  get_VLA_calibrators keys it on the J2000 *)
(* name of a source block, HHMM+DDd (8 characters); a record holds 'ra',    *)
(* 'dec', 'bname' when the block has a B1950 line, 'cat3c' when the         *)
(* alternate name is a 3C name, and 'mm<N>' for each flux row (fluxes here  *)
(* in units of 0.01 Jy).                                                    *)

J1012p531 == <<"1","0","1","2","+","5","3","1">>
J1012p551 == <<"1","0","1","2","+","5","5","1">>
J1331p305 == <<"1","3","3","1","+","3","0","5">>
J1009p535 == <<"1","0","0","9","+","5","3","5">>
B1009p533 == <<"1","0","0","9","+","5","3","3">>
B1328p307 == <<"1","3","2","8","+","3","0","7">>
Cat3C286  == <<"3","C","2","8","6">>

SourcePool ==
  ( J1012p531 :> [ra |-> 10203, dec |-> 5311, bname |-> B1009p533, mm7 |-> 18] ) @@
  ( J1012p551 :> [ra |-> 10207, dec |-> 5512, mm36 |-> 0] ) @@
  ( J1331p305 :> [ra |-> 13519, dec |-> 3051, bname |-> B1328p307,
                  cat3c |-> Cat3C286, mm200 |-> 1500, mm60 |-> 747, mm36 |-> 523] ) @@
  ( J1009p535 :> [ra |-> 10155, dec |-> 5359] )

Catalogs == { [k \in ks |-> SourcePool[k]] :
                ks \in { s \in SUBSET (DOMAIN SourcePool) : Cardinality(s) <= MaxSources } }

\* the dictionaries given to VLA_name_xref: the catalogues, and those in which
\* 1009+535 has the B name of 1012+531 and the 3C name of 1331+305
XrefInputs ==
  Catalogs \cup
  { [c EXCEPT ![J1009p535] = [bname |-> B1009p533, cat3c |-> Cat3C286] @@ @] :
      c \in { d \in Catalogs : J1009p535 \in DOMAIN d } }

\* the states of a pickle file of cal_dir
FileStates == {"ok", "missing", "corrupt"}

\* dict.has_key
has_key(d, k) == k \in DOMAIN d

\* the orders in which iterating a dict (or dict.keys()) may yield its keys
KeyOrders(S) == { f \in [1..Cardinality(S) -> S] :
                    \A i, j \in 1..Cardinality(S) : f[i] = f[j] => i = j }

\* Python's None where a source record is expected
NoRecord == NoValue

-----------------------------------------------------------------------------
(* vla_cal.py *)

\* get_cal_dict(): the pickled dictionary; when the file cannot be opened the
\* list is fetched again (get_VLA_calibrators); a file that cannot be unpickled
\* makes pickle.load raise
get_cal_dict ==
  IF vla_cals = "corrupt" THEN Raised("UnpicklingError") ELSE Returned(cal_data)

\* a cross-reference that sends every alternate name to the first key
xref_dict_first_key(data, keys, field) ==
  [n \in { data[k][field] : k \in { j \in DOMAIN data : has_key(data[j], field) } }
     |-> keys[1]]

\* one cross-reference of VLA_name_xref: iterating `keys`, a later key with the
\* same alternate name overwrites an earlier one
xref_dict(data, keys, field) ==
  LET has(i)  == has_key(data[keys[i]], field)
      names   == { data[keys[i]][field] : i \in { j \in 1..Len(keys) : has(j) } }
      last(n) == CHOOSE i \in 1..Len(keys) :
                   /\ has(i) /\ data[keys[i]][field] = n
                   /\ \A j \in (i+1)..Len(keys) : ~ (has(j) /\ data[keys[j]][field] = n)
  IN  [n \in names |-> keys[last(n)]]

\* VLA_name_xref(cal_data), with keys = cal_data.keys()
VLA_name_xref(data, keys) ==
  [Bname_dict |-> xref_dict(data, keys, "bname"),
   cat_3C_dict |-> xref_dict(data, keys, "cat3c")]

\* IAU_name_parts(name)
IAU_name_parts(name) ==
  LET index == Max2(find(name, "-"), find(name, "+")) + 1
  IN  [ra_part |-> Slice(name, 0, index - 1), dec_part |-> SliceFrom(name, index)]

\* dec_close with the bound of the difference taken inclusive (<= 2 for < 2)
dec_close_within_2(name_dec, key_dec, missing) ==
  IF ~ IsNumber(name_dec) \/ ~ IsNumber(key_dec) THEN "raise"
  ELSE IF missing > 0
       THEN IF Abs(NumberValue(name_dec)
                   - RoundDiv(NumberValue(key_dec), Pow10(missing))) <= 2
            THEN "yes" ELSE "no"
       ELSE IF Abs(RoundDiv(NumberValue(name_dec), Pow10(-missing))
                   - NumberValue(key_dec)) <= 2
            THEN "yes" ELSE "no"

\* the test of match_IAU_name on one candidate whose RA part equals the name's;
\* "raise" when int() or float() of a declination part raises ValueError
dec_close(name_dec, key_dec, missing) ==
  IF ~ IsNumber(name_dec) \/ ~ IsNumber(key_dec) THEN "raise"
  ELSE IF missing > 0
       THEN IF Abs(NumberValue(name_dec)
                   - RoundDiv(NumberValue(key_dec), Pow10(missing))) < 2
            THEN "yes" ELSE "no"
       ELSE IF Abs(RoundDiv(NumberValue(name_dec), Pow10(-missing))
                   - NumberValue(key_dec)) < 2
            THEN "yes" ELSE "no"

\* match_loop returning the name it was given in place of the candidate
RECURSIVE match_loop_returns_name(_, _, _)
match_loop_returns_name(name, name_list, i) ==
  IF i > Len(name_list) THEN Returned([name |-> None])
  ELSE LET n   == IAU_name_parts(name)
           key == IAU_name_parts(name_list[i])
       IN  IF key.ra_part = n.ra_part
           THEN LET close == dec_close(n.dec_part, key.dec_part, 8 - Len(name))
                IN  IF close = "raise" THEN Raised("ValueError")
                    ELSE IF close = "yes" THEN Returned([name |-> name])
                    ELSE match_loop_returns_name(name, name_list, i + 1)
           ELSE match_loop_returns_name(name, name_list, i + 1)

\* the loop of match_IAU_name over name_list[i..]
RECURSIVE match_loop(_, _, _)
match_loop(name, name_list, i) ==
  IF i > Len(name_list) THEN Returned([name |-> None])
  ELSE LET missing   == 8 - Len(name)
           candidate == name_list[i]
           n         == IAU_name_parts(name)
           key       == IAU_name_parts(candidate)
       IN  IF key.ra_part = n.ra_part
           THEN LET close == dec_close(n.dec_part, key.dec_part, missing)
                IN  IF close = "raise" THEN Raised("ValueError")
                    ELSE IF close = "yes" THEN Returned([name |-> candidate])
                    ELSE match_loop(name, name_list, i + 1)
           ELSE match_loop(name, name_list, i + 1)

\* match_IAU_name(name, name_list)
match_IAU_name(name, name_list) ==
  IF 8 - Len(name) = 0
  THEN IF \E i \in 1..Len(name_list) : name_list[i] = name
       THEN Returned([name |-> name]) ELSE Returned([name |-> None])
  ELSE match_loop(name, name_list, 1)

\* IAU_type_of without .lower(): the first character as it was written
IAU_type_as_written(name) ==
  IF lower(name[1]) = "j" \/ lower(name[1]) = "b" THEN name[1] ELSE "None"

\* fix_IAU_name, "Find out how to handle the name": the type of the name, 'j'
\* or 'b' from its first character, and the name without that character
IAU_type_of(name) ==
  IF lower(name[1]) = "j" \/ lower(name[1]) = "b" THEN lower(name[1]) ELSE "None"

\* strip_IAU_type without `name = name[1:]`
strip_nothing(name) == name

strip_IAU_type(name) ==
  IF lower(name[1]) = "j" \/ lower(name[1]) = "b" THEN Tail(name) ELSE name

\* try_both with the B names tried before the J names
try_both_B_first(name, jkeys, bkeys) ==
  LET in_J == match_IAU_name(name, jkeys)
      in_B == match_IAU_name(name, bkeys)
  IN  IF in_B.status = "raise" THEN in_B
      ELSE IF in_B.value.name # None THEN Returned([name |-> in_B.value.name, type |-> "b"])
      ELSE IF in_J.status = "raise" THEN in_J
      ELSE IF in_J.value.name # None THEN Returned([name |-> in_J.value.name, type |-> "j"])
      ELSE Returned([name |-> None, type |-> "None"])

\* fix_IAU_name, "IAU type unknown, try both": the J names, then the B names
try_both(name, jkeys, bkeys) ==
  LET in_J == match_IAU_name(name, jkeys)
      in_B == match_IAU_name(name, bkeys)
  IN  IF in_J.status = "raise" THEN in_J
      ELSE IF in_J.value.name # None THEN Returned([name |-> in_J.value.name, type |-> "j"])
      ELSE IF in_B.status = "raise" THEN in_B
      ELSE IF in_B.value.name # None THEN Returned([name |-> in_B.value.name, type |-> "b"])
      ELSE Returned([name |-> None, type |-> "None"])

\* fix_IAU_name(name); jkeys is the order of get_cal_dict().keys() and bkeys the
\* order in which the B-name dictionary of VLA_name_xref yields its keys
fix_IAU_name(name, jkeys, bkeys) ==
  IF get_cal_dict.status = "raise" THEN get_cal_dict
  ELSE IF Len(name) = 0 THEN Raised("IndexError")
  ELSE LET IAU_type == IAU_type_of(name)
           stripped == strip_IAU_type(name)
           in_J     == match_IAU_name(stripped, jkeys)
           in_B     == match_IAU_name(stripped, bkeys)
       IN  IF Len(stripped) = 8
           THEN Returned([name |-> stripped, type |-> IAU_type])
           ELSE IF IAU_type = "j"
           THEN IF in_J.status = "raise" THEN in_J
                ELSE Returned([name |-> in_J.value.name, type |-> "j"])
           ELSE IF IAU_type = "b"
           THEN IF in_B.status = "raise" THEN in_B
                ELSE Returned([name |-> in_B.value.name, type |-> "b"])
           ELSE try_both(stripped, jkeys, bkeys)

\* the binding of a name: none, or a value
NotBound == << >>
Bound(v) == <<v>>

\* get_cal_data with bnames loaded before the branch of the names without
\* prefix
ambiguous_bnames_loaded(data, keys) == Bound(VLA_name_xref(data, keys).Bname_dict)

\* get_cal_data, the branch of the names without prefix ("ambiguous"): the
\* binding of bnames there.  Only the branches for 'b' and '3c' assign it.
ambiguous_bnames(data, keys) == NotBound

\* get_cal_data(source), with keys = the order of data.keys().  The B_names and
\* 3C_names pickle files hold the dictionaries VLA_name_xref made of the
\* calibrator dictionary (module docstring, "Administration").
get_cal_data(source, keys) ==
  IF get_cal_dict.status = "raise" THEN get_cal_dict
  ELSE IF Len(source) = 0 THEN Raised("IndexError")
  ELSE LET data == get_cal_dict.value
           xref == VLA_name_xref(data, keys)
           name == Tail(source)
       IN  IF lower(source[1]) = "j"
           THEN IF has_key(data, name) THEN Returned(data[name])
                ELSE Returned(NoRecord)
           ELSE IF lower(source[1]) = "b"
           THEN IF b_names = "corrupt" THEN Raised("UnpicklingError")
                ELSE LET bnames == xref.Bname_dict
                     IN  IF ~ has_key(bnames, name) THEN Raised("KeyError")
                         ELSE IF ~ has_key(data, bnames[name]) THEN Raised("KeyError")
                         ELSE Returned(data[bnames[name]])
           ELSE IF Len(source) >= 2 /\ lower(source[1]) = "3" /\ lower(source[2]) = "c"
           THEN IF c3_names = "corrupt" THEN Raised("UnpicklingError")
                ELSE IF c3_names = "ok"
                THEN \* the snapshot is loaded into bnames; cat_3C is never bound
                     Raised("UnboundLocalError")
                ELSE LET cat_3C == xref.cat_3C_dict
                     IN  IF ~ has_key(cat_3C, source) THEN Raised("KeyError")
                         ELSE IF ~ has_key(data, cat_3C[source]) THEN Raised("KeyError")
                         ELSE Returned(data[cat_3C[source]])
           ELSE IF has_key(data, source) THEN Returned(data[source])
                ELSE LET bnames == ambiguous_bnames(data, keys)
                     IN  IF bnames = NotBound THEN Raised("UnboundLocalError")
                         ELSE IF ~ has_key(bnames[1], source) THEN Returned(NoRecord)
                         ELSE IF ~ has_key(data, bnames[1][source]) THEN Raised("KeyError")
                         ELSE Returned([jname |-> source] @@ data[bnames[1][source]])

\* get_cal_data(source): the dictionary get_cal_dict gave, as the call leaves
\* it.  The one statement that stores into it is source_data['jname'] = source
\* on the branch of the names without prefix.
data_after_get_cal_data(source, keys) ==
  IF get_cal_dict.status = "raise" THEN NotBound
  ELSE LET data   == get_cal_dict.value
           bnames == ambiguous_bnames(data, keys)
       IN  IF /\ Len(source) > 0
              /\ lower(source[1]) \notin {"j", "b"}
              /\ ~ (Len(source) >= 2 /\ lower(source[1]) = "3" /\ lower(source[2]) = "c")
              /\ ~ has_key(data, source)
              /\ bnames # NotBound
              /\ has_key(bnames[1], source)
              /\ has_key(data, bnames[1][source])
           THEN Bound([data EXCEPT ![bnames[1][source]] = [jname |-> source] @@ @])
           ELSE Bound(data)

\* fix_IAU_name(name): the dictionary get_cal_dict gave, as the call leaves
\* it.  No statement of fix_IAU_name, match_IAU_name or VLA_name_xref stores
\* into it.
data_after_fix_IAU_name(name) ==
  IF get_cal_dict.status = "raise" THEN NotBound ELSE Bound(get_cal_dict.value)

\* the keys of the source records as Python strings
KeyChars ==
  [ra    |-> <<"r","a">>,
   dec   |-> <<"d","e","c">>,
   bname |-> <<"b","n","a","m","e">>,
   cat3c |-> <<"c","a","t","3","c">>,
   mm7   |-> <<"m","m","7">>,
   mm36  |-> <<"m","m","3","6">>,
   mm60  |-> <<"m","m","6","0">>,
   mm200 |-> <<"m","m","2","0","0">>]

\* get_flux_data without the test src_data[key] != 0.0
flux_keys_keeps_zero(src_data) ==
  { key \in DOMAIN src_data : Slice(KeyChars[key], 0, 2) = <<"m","m">> }

\* get_flux_data: the keys of src_data that enter S
flux_keys(src_data) ==
  { key \in DOMAIN src_data :
      /\ Slice(KeyChars[key], 0, 2) = <<"m","m">>
      /\ src_data[key] # 0 }

\* get_flux_data: f = 300./mm for a key
key_freq(key) == Rat(300, NumberValue(SliceFrom(KeyChars[key], 2)))

\* f.sort(): the keys in ascending order of their frequency
RECURSIVE sorted_keys(_)
sorted_keys(keys) ==
  IF keys = {} THEN << >>
  ELSE LET k == CHOOSE k \in keys :
                  \A j \in keys \ {k} : RatLess(key_freq(k), key_freq(j))
       IN  <<k>> \o sorted_keys(keys \ {k})

\* get_flux_data(src_data): (list of freqs, list of fluxes); src_data None has
\* no keys()
get_flux_data(src_data) ==
  IF src_data = NoRecord THEN Raised("AttributeError")
  ELSE LET f == sorted_keys(flux_keys(src_data))
       IN  Returned([freqs  |-> [i \in 1..Len(f) |-> key_freq(f[i])],
                     fluxes |-> [i \in 1..Len(f) |-> Float(src_data[f[i]])]])

\* interpolate_flux(freqs, fluxes, freq)
interpolate_flux(freqs, fluxes, freq) ==
  IF Len(freqs) < 1 THEN Returned([estimate |-> None])
  ELSE IF Len(freqs) = 1 THEN Returned([estimate |-> fluxes[1]])
  ELSE LET fit == polyfit(freqs, fluxes)
       IN  IF fit.status = "raise" THEN fit
           ELSE Returned([estimate |-> polyval(fit.value, freq)])

-----------------------------------------------------------------------------
(* radio_flux.py *)

\* planets recognized by module ephem
Planets == <<<<"J","u","p","i","t","e","r">>,
            <<"M","a","r","s">>,
            <<"M","e","r","c","u","r","y">>,
            <<"M","o","o","n">>,
            <<"N","e","p","t","u","n","e">>,
            <<"P","l","u","t","o">>,
            <<"S","a","t","u","r","n">>,
            <<"S","u","n">>,
            <<"U","r","a","n","u","s">>,
            <<"V","e","n","u","s">>>>

Jupiter == Planets[1]
Mars    == Planets[2]
Mercury == Planets[3]
Saturn  == Planets[7]
Sun     == Planets[8]
Venus   == Planets[10]

\* list.index(x) succeeds (otherwise it raises ValueError)
in_list(l, x) == \E i \in 1..Len(l) : l[i] = x

\* get_planet_flux(planet, freq, date).  Each branch binds pl and a brightness
\* temperature Tb > 0 (a constant, the Venus model, or a constant scaled by the
\* ephemeris); flux(Tb, freq, diameter) is the black-body intensity times the
\* solid angle of the disk, so the value is kept as its sign.  A name of no
\* branch leaves pl unbound and `pl.name` raises.
get_planet_flux(planet, freq, date) ==
  LET source == capitalize(planet)
  IN  IF source \in {Venus, Jupiter, Saturn, Sun, Mars, Mercury}
      THEN Returned([flux |-> "positive"])
      ELSE Raised("UnboundLocalError")

\* get_calibrator_flux(source, freq, date).  Ephem is no name of the module:
\* Ephem.Quasar(source) raises NameError, which the bare except of the last
\* branch catches.  ref is bound on the planet branch and in that except only.
get_calibrator_flux(source, freq, date) ==
  IF in_list(Planets, source)
  THEN LET flux == get_planet_flux(source, freq, date)
       IN  IF flux.status = "raise" THEN flux
           ELSE Returned([flux |-> flux.value.flux, ref |-> "Planet"])
  ELSE IF Len(source) < 2 THEN Raised("IndexError")
  ELSE IF source[2] = "C" \/ source[1] = "J" \/ source[1] = "B"
       THEN Raised("NameError")
       ELSE Returned([flux |-> "None", ref |-> "None"])

-----------------------------------------------------------------------------
(* michigan.py *)

\* float(key) of the frequency keys of a Michigan table
ChannelFreq == ("4.8" :> Rat(48, 10)) @@ ("8.0" :> Rat(80, 10)) @@ ("14.5" :> Rat(145, 10))

\* a nearest_index that gives the first index whatever the value: the fit of
\* an extrapolation then runs over the history from its start
nearest_index_first(np_array, value, beyond) == 0

\* Data_Reduction.nearest_index(np_array, value): the 0-based index of the
\* element nearest to value, the first of them when two are as near.  For a
\* value beyond the ends of the array the function either gives that index as
\* well (beyond = "nearest") or discards the point and gives -1
\* (beyond = "minus one").
nearest_index(np_array, value, beyond) ==
  LET dist(i) == Abs(np_array[i] - value)
      index   == CHOOSE i \in 1..Len(np_array) :
                   /\ \A j \in 1..Len(np_array) : dist(i) <= dist(j)
                   /\ \A j \in 1..(i - 1) : dist(j) > dist(i)
  IN  IF (value < np_array[1] \/ value > np_array[Len(np_array)]) /\ beyond = "minus one"
      THEN -1
      ELSE index - 1

\* the 0-based position a slice bound i stands for in a sequence of length n
SliceBound(i, n) == IF i < 0 THEN Max2(n + i, 0) ELSE IF i > n THEN n ELSE i

\* a name of a module that is not bound
Unbound == "unbound"

\* polate_flux, one pass of the time loop: the slice datenums[first:stop] that
\* is fitted for a channel (0-based, stop exclusive) and the binding of
\* timedelta the pass leaves.  timedelta is bound by a pass that extrapolates
\* forward only; the backward branch binds time_delta and reads timedelta.
select_window(datenums, datenum, timedelta, beyond) ==
  LET n == Len(datenums)
  IN  IF datenum > datenums[n]
      THEN LET delta     == datenum - datenums[n]
               ref_index == nearest_index(datenums, datenums[n] - delta, beyond)
           IN  [status |-> "ok", branch |-> "forward", timedelta |-> Bound(delta),
                ref_index |-> ref_index,
                first |-> SliceBound(ref_index, n), stop |-> SliceBound(-1, n)]
      ELSE IF datenum < datenums[1]
      THEN IF timedelta = NotBound
           THEN [status |-> "UnboundLocalError", branch |-> "backward",
                 timedelta |-> timedelta, ref_index |-> 0, first |-> 0, stop |-> 0]
           ELSE LET ref_index == nearest_index(datenums, datenums[1] + timedelta[1], beyond)
                IN  [status |-> "ok", branch |-> "backward", timedelta |-> timedelta,
                     ref_index |-> ref_index,
                     first |-> SliceBound(0, n), stop |-> SliceBound(ref_index, n)]
      ELSE LET ref_index   == nearest_index(datenums, datenum, beyond)
               max_index   == n - 1
               first_index == Max2(ref_index - 4, 0)
               last_index  == IF ref_index + 4 < max_index THEN ref_index + 4 ELSE max_index
           IN  [status |-> "ok", branch |-> "inside", timedelta |-> timedelta,
                ref_index |-> ref_index,
                first |-> SliceBound(first_index, n), stop |-> SliceBound(last_index, n)]

Floats(s) == [i \in 1..Len(s) |-> Float(s[i])]

\* polate_flux, the body of the time loop for one channel: guess[key]
polate_time(datenums, fluxes, datenum, window) ==
  LET timedata == Slice(datenums, window.first, window.stop)
      fluxdata == Slice(fluxes, window.first, window.stop)
      fit      == polyfit(Floats(timedata), Floats(fluxdata))
  IN  IF fit.status = "raise" THEN fit
      ELSE Returned([estimate |-> polyval(fit.value, Float(datenum))])

\* polate_flux, "(inter/extra)polate time first": the loop over times.keys()
\* from keys[i] on, with the guesses made so far and the binding of timedelta
RECURSIVE time_loop(_, _, _, _, _, _, _)
time_loop(table, keys, datenum, beyond, i, guess, timedelta) ==
  IF i > Len(keys) THEN Returned([guess |-> guess])
  ELSE LET key    == keys[i]
           window == select_window(table.times[key], datenum, timedelta, beyond)
           g      == polate_time(table.times[key], table.fluxes[key], datenum, window)
       IN  IF window.status # "ok" THEN Raised(window.status)
           ELSE IF g.status = "raise" THEN g
           ELSE time_loop(table, keys, datenum, beyond, i + 1,
                          guess \o <<g.value.estimate>>, window.timedelta)

\* polate_flux, "Now we (inter/extra)polate frequency"
polate_frequency(keys, guess, freq) ==
  LET freqs == [i \in 1..Len(keys) |-> ChannelFreq[keys[i]]]
      fit   == polyfit(freqs, guess)
  IN  IF fit.status = "raise" THEN fit
      ELSE Returned([estimate |-> polyval(fit.value, freq)])

\* the B names table_links holds a table for
MichiganSources == { B1328p307 }

\* the Michigan database cannot be reached
Unreachable == [unreachable |-> TRUE]

\* polate_flux(Jname, datenum, freq).  served is what urllib.urlopen and the
\* parsing of get_flux_data give for table_links[Jname][1]: the dictionaries
\* times and fluxes keyed by frequency; keys is the order of times.keys().
polate_flux(Jname, datenum, freq, served, keys, beyond) ==
  IF Jname \notin MichiganSources THEN Raised("KeyError")
  ELSE IF served = Unreachable THEN Raised("IOError")
  ELSE LET guesses == time_loop(served, keys, datenum, beyond, 1, << >>, NotBound)
       IN  IF guesses.status = "raise" THEN guesses
           ELSE polate_frequency(keys, guesses.value.guess, freq)

-----------------------------------------------------------------------------
(* vla_cal.py, get_VLA_calibrators: the loop over the lines of the list     *)

\* the lines of the list by what the loop tests: the line of the closing tag,
\* a line of white space, the line with J2000, the line with B1950, the line
\* of dashes, the header BAND, the separator of '=', a row of the flux table,
\* and any other text
Lines == {"</PRE>", " ", "J2000", "B1950", "--", "BAND", "==", "0.7cm", "text"}

\* the locals of get_VLA_calibrators before the loop, with catalog the lines
\* read from the URL.  i counts the lines the loop has taken, branch is the
\* branch of the if statement the last of them took.
before_loop(catalog) ==
  [catalog |-> catalog, i |-> 0, branch |-> "", status |-> "loop", exc |-> "",
   get_fluxes |-> FALSE, this_source |-> NotBound, current_source |-> NotBound,
   cal_data |-> {}]

\* cal_data[source] = keys, the dictionary being a set of entries
store(entries, source, keys) ==
  { e \in entries : e.source # source } \cup { [source |-> source, keys |-> keys] }

\* get_VLA_calibrators, one pass of the loop: the locals p after the next line
parse_line(p) ==
  LET i    == p.i + 1
      line == p.catalog[i]
      at(branch) == [p EXCEPT !.i = i, !.branch = branch]
      break(q)   == [q EXCEPT !.status = "return"]
      raise(q)   == [q EXCEPT !.status = "raise", !.exc = "UnboundLocalError"]
  IN  IF line = "</PRE>"
      THEN IF p.this_source = NotBound \/ p.current_source = NotBound
           THEN raise(at("end"))
           ELSE break([at("end") EXCEPT !.cal_data =
                         store(p.cal_data, p.current_source[1], p.this_source[1])])
      ELSE IF line = " "
      THEN [at("blank") EXCEPT
              !.cal_data = IF /\ p.this_source # NotBound
                              /\ p.this_source[1] # {}
                              /\ p.current_source # NotBound
                           THEN store(p.cal_data, p.current_source[1], p.this_source[1])
                           ELSE p.cal_data,
              \* get_fluxes == False compares and assigns nothing
              !.this_source = Bound({})]
      ELSE IF line = "J2000"
      THEN LET q == [at("J2000") EXCEPT !.current_source = Bound(i),
                                        !.cal_data = store(p.cal_data, i, {})]
           IN  IF p.this_source = NotBound THEN break(q)
               ELSE [q EXCEPT !.this_source = Bound(p.this_source[1] \cup {"ra", "dec"})]
      ELSE IF line = "B1950"
      THEN IF p.this_source = NotBound THEN raise(at("B1950"))
           ELSE [at("B1950") EXCEPT !.this_source = Bound(p.this_source[1] \cup {"bname"})]
      ELSE IF line = "--" THEN at("--")
      ELSE IF line = "BAND" THEN at("BAND")
      ELSE IF line = "==" THEN [at("==") EXCEPT !.get_fluxes = TRUE]
      ELSE IF p.get_fluxes = TRUE
      THEN IF line # "0.7cm" THEN break(at("flux"))
           ELSE IF p.this_source = NotBound THEN raise(at("flux"))
           ELSE [at("flux") EXCEPT !.this_source = Bound(p.this_source[1] \cup {"mm7"})]
      ELSE at("none")

-----------------------------------------------------------------------------
(* bands.py *)

\* frequency_to_band(freq), freq in GHz
frequency_to_band(freq) ==
  LET below(f) == RatLess(freq, f)
  IN  IF below(Float(1)) THEN None
      ELSE IF below(Float(2)) THEN <<"L">>
      ELSE IF below(Float(4)) THEN <<"S">>
      ELSE IF below(Float(8)) THEN <<"C">>
      ELSE IF below(Float(12)) THEN <<"X">>
      ELSE IF below(Float(18)) THEN <<"K","a">>
      ELSE IF below(Rat(265, 10)) THEN <<"K">>
      ELSE IF below(Float(40)) THEN <<"K","a">>
      ELSE IF below(Float(50)) THEN <<"Q">>
      ELSE IF below(Float(75)) THEN <<"V">>
      ELSE IF below(Float(115)) THEN <<"W">>
      ELSE <<"D">>

\* band_to_frequency(band)
band_to_frequency(band) ==
  IF band = <<"L">> THEN Rat(17, 10)
  ELSE IF band = <<"S">> THEN Rat(23, 10)
  ELSE IF band = <<"C">> THEN Float(5)
  ELSE IF band = <<"X">> THEN Rat(845, 100)
  ELSE IF band = <<"K","u">> THEN Float(15)
  ELSE IF band = <<"K">> THEN Float(22)
  ELSE IF band = <<"K","a">> THEN Float(34)
  ELSE IF band = <<"Q">> THEN Float(42)
  ELSE IF band = <<"W">> THEN Float(90)
  ELSE None

-----------------------------------------------------------------------------
(* The inputs of the calls *)

\* name fragments without a prefix: catalogue names, names absent from every
\* catalogue, names with a truncated or an over-long declination, names with no
\* sign, names with a declination that is no number, and the empty name
Fragments ==
  { <<"1","0","1","2","+","5","3","1">>, <<"1","0","1","2","+","5","5","1">>,
    <<"1","3","3","1","+","3","0","5">>, <<"1","0","0","9","+","5","3","5">>,
    <<"1","0","0","9","+","5","3","3">>, <<"1","3","2","8","+","3","0","7">>,
    <<"1","0","1","2","-","5","3","1">>, <<"9","9","9","9","+","9","9","9">>,
    <<"1","0","1","2","5","3","1","0">>, <<"1","0","1","2","+","5","3">>,
    <<"1","0","1","2","+","5","4">>, <<"1","0","1","2","+","5","1">>,
    <<"1","0","1","2","+","5","2">>,
    <<"1","0","1","2","-","5","3">>, <<"1","0","0","9","+","5","3">>,
    <<"1","0","0","9","+","5","4">>, <<"1","0","0","9","+","5","2">>,
    <<"1","3","2","8","+","3","1">>, <<"1","3","3","1","+","3">>,
    <<"1","0","1","2","+">>, <<"1","0","1","2">>,
    <<"1","0","1","2","+","5","3","0","7">>,
    <<"1","0","1","2","+","5","2","9","5">>,
    <<"1","0","1","2","+","5","2","8","5">>,
    <<"1","0","1","2","-","5","3","0","7">>,
    <<"1","3","3","1","+","3","0","4","9">>, <<"1","0","1","2","5">>,
    <<"1","0","1","2","x">>, <<"1","0","1","2","+","5","x">>, <<"x">>,
    <<"1">>, <<>> }

Prefixes == { << >>, <<"J">>, <<"j">>, <<"B">>, <<"b">> }

\* the source names given to get_cal_data and fix_IAU_name
SourceNames ==
  { p \o f : p \in Prefixes, f \in Fragments } \cup
  { <<"3","C","2","8","6">>, <<"3","c","2","8","6">>,
    <<"3","C","9","9","9">>, <<"3","C">>, <<"V","i","r","g","o">> }

LowerStr(s) == [i \in 1..Len(s) |-> lower(s[i])]
UpperStr(s) == [i \in 1..Len(s) |-> upper(s[i])]

\* the planet names as listed, in lower case and in upper case
PlanetNames ==
  UNION { { Planets[i], LowerStr(Planets[i]), UpperStr(Planets[i]) } : i \in 1..Len(Planets) }

\* the source names given to get_calibrator_flux
FluxNames ==
  PlanetNames \cup
  { <<>>, <<"J">>, <<"3">>, <<"3","C","2","8","6">>, <<"3","c","2","8","6">>,
    <<"J","1","3","3","1","+","3","0","5">>,
    <<"j","1","3","3","1","+","3","0","5">>,
    <<"B","1","3","2","8","+","3","0","7">>,
    <<"b","1","3","2","8","+","3","0","7">>,
    <<"1","3","3","1","+","3","0","5">>, <<"V","i","r","g","o">> }

\* frequencies in GHz: below, inside and above the range of the Venus fit
Freqs == {2, 15, 90}
Dates == 1..MaxDate

\* the times of a channel in ascending order, as the rows of a table are
RECURSIVE Ascending(_)
Ascending(T) ==
  IF T = {} THEN << >>
  ELSE LET t == CHOOSE t \in T : \A u \in T : t <= u
       IN  <<t>> \o Ascending(T \ {t})

\* the light curve of the source: its flux at time t
FluxAt(t) == ((t * t) % 5) + 1

SampleTimes == 1..MaxTime
Histories == (SUBSET SampleTimes) \ {{}}
Runs == { a..b : a \in SampleTimes, b \in SampleTimes } \ {{}}
ShortRuns == { r \in Runs : Cardinality(r) <= 2 }

\* a table as get_flux_data parses it: times and fluxes keyed by frequency
Samples(T) == [i \in 1..Cardinality(T) |-> FluxAt(Ascending(T)[i])]
Table(T) ==
  [times  |-> [key \in DOMAIN T |-> Ascending(T[key])],
   fluxes |-> [key \in DOMAIN T |-> Samples(T[key])]]

\* the histories of a channel: any for the channel of a table of one channel,
\* short ones for the channels of a table of two
HistoriesOf(key) == IF key = "8.0" THEN Histories ELSE ShortRuns

\* the tables the Michigan database serves: one without flux data, tables of
\* one channel with any history, and tables of two channels with short ones
Tables ==
  { Table(<< >>) } \cup
  { Table([key \in {"8.0"} |-> T]) : T \in HistoriesOf("8.0") } \cup
  { Table(("4.8" :> T1) @@ ("14.5" :> T2)) :
      T1 \in HistoriesOf("4.8"), T2 \in HistoriesOf("14.5") }

\* a table after the database revised the earlier history of at most one
\* channel: the last sample of every channel is as it was
Revisions(table) ==
  {table} \cup
  UNION { { [times  |-> [table.times EXCEPT ![key] = Ascending(T)],
             fluxes |-> [table.fluxes EXCEPT ![key] = Samples(T)]] :
              T \in { H \in HistoriesOf(key) :
                        /\ table.times[key][Len(table.times[key])] \in H
                        /\ \A t \in H : t <= table.times[key][Len(table.times[key])] } } :
          key \in DOMAIN table.times }

\* the names given to polate_flux, the query dates (before, inside and after
\* the samples) and the query frequencies in GHz
MichiganNames == MichiganSources \cup { <<"9","9","9","9","+","9","9","9">> }
Datenums == 0..(MaxTime + 3)
MichiganFreqs == {8, 15}
Beyond == {"nearest", "minus one"}

-----------------------------------------------------------------------------
(* The state machine: the module is loaded, then its functions are called    *)
(* one at a time.                                                            *)

NoCall == [op |-> "none", name |-> None, freq |-> 0, date |-> 0,
           space |-> "", first |-> None]
NoResult == [status |-> "none", exc |-> "", value |-> NoValue]

Call(op, name) == [NoCall EXCEPT !.op = op, !.name = name]

\* module michigan is not imported
MichiganIdle ==
  /\ table_links = Unbound
  /\ fetched = NoValue
  /\ previous = NoValue

Init ==
  /\ cal_data \in Catalogs
  /\ vla_cals \in FileStates
  /\ b_names \in FileStates
  /\ c3_names \in FileStates
  /\ call = NoCall
  /\ result = NoResult
  /\ michigan_tables = "ok"
  /\ MichiganIdle
  /\ loaded = NotBound
  /\ parser = NoValue

Files == <<vla_cals, b_names, c3_names>>
Michigan == <<michigan_tables, table_links, fetched, previous>>

\* the orders of the keys of the calibrator dictionary and of its B-name
\* cross-reference
JKeyOrders == KeyOrders(DOMAIN cal_data)
BKeyOrders(jkeys) == KeyOrders(DOMAIN VLA_name_xref(cal_data, jkeys).Bname_dict)

CallGetCalibratorFlux ==
  /\ call = NoCall
  /\ \E source \in FluxNames, freq \in Freqs, date \in Dates :
       /\ call' = [Call("get_calibrator_flux", source) EXCEPT !.freq = freq, !.date = date]
       /\ result' = get_calibrator_flux(source, freq, date)
  /\ UNCHANGED <<cal_data, loaded, Files, parser, Michigan>>

CallGetPlanetFlux ==
  /\ call = NoCall
  /\ \E planet \in PlanetNames, freq \in Freqs, date \in Dates :
       /\ call' = [Call("get_planet_flux", planet) EXCEPT !.freq = freq, !.date = date]
       /\ result' = get_planet_flux(planet, freq, date)
  /\ UNCHANGED <<cal_data, loaded, Files, parser, Michigan>>

CallGetCalData ==
  /\ call = NoCall
  /\ \E source \in SourceNames, keys \in JKeyOrders :
       /\ call' = Call("get_cal_data", source)
       /\ result' = get_cal_data(source, keys)
       /\ loaded' = data_after_get_cal_data(source, keys)
  /\ UNCHANGED <<cal_data, Files, parser, Michigan>>

CallFixIAUName ==
  /\ call = NoCall
  /\ \E name \in SourceNames, jkeys \in JKeyOrders :
       \E bkeys \in BKeyOrders(jkeys) :
         /\ call' = Call("fix_IAU_name", name)
         /\ result' = fix_IAU_name(name, jkeys, bkeys)
         /\ loaded' = data_after_fix_IAU_name(name)
  /\ UNCHANGED <<cal_data, Files, parser, Michigan>>

\* the name fix_IAU_name returned is given to fix_IAU_name again
ResolveAgain ==
  /\ call.op = "fix_IAU_name"
  /\ call.first = None
  /\ result.status = "return"
  /\ result.value.name # None
  /\ \E jkeys \in JKeyOrders :
       \E bkeys \in BKeyOrders(jkeys) :
         /\ call' = [Call("fix_IAU_name", result.value.name) EXCEPT !.first = call.name]
         /\ result' = fix_IAU_name(result.value.name, jkeys, bkeys)
         /\ loaded' = data_after_fix_IAU_name(result.value.name)
  /\ UNCHANGED <<cal_data, Files, parser, Michigan>>

\* match_IAU_name on the J names (space "j") or the B names (space "b") of the
\* calibrator dictionary
CallMatchIAUName ==
  /\ call = NoCall
  /\ \E name \in Fragments, space \in {"j", "b"}, jkeys \in JKeyOrders :
       \E bkeys \in BKeyOrders(jkeys) :
         /\ call' = [Call("match_IAU_name", name) EXCEPT !.space = space]
         /\ result' = match_IAU_name(name, IF space = "j" THEN jkeys ELSE bkeys)
  /\ UNCHANGED <<cal_data, loaded, Files, parser, Michigan>>

\* get_flux_data on the record of a source of the calibrator dictionary (the
\* data a call of get_cal_data returned)
CallGetFluxData ==
  /\ call = NoCall
  /\ vla_cals # "corrupt"
  /\ \E source \in DOMAIN cal_data :
       /\ call' = Call("get_flux_data", source)
       /\ result' = get_flux_data(cal_data[source])
  /\ UNCHANGED <<cal_data, loaded, Files, parser, Michigan>>

\* interpolate_flux on the lists get_flux_data returned
CallInterpolateFlux ==
  /\ call.op = "get_flux_data"
  /\ result.status = "return"
  /\ \E freq \in Freqs :
       /\ call' = [Call("interpolate_flux", call.name) EXCEPT !.freq = freq]
       /\ result' = interpolate_flux(result.value.freqs, result.value.fluxes, Float(freq))
  /\ UNCHANGED <<cal_data, loaded, Files, parser, Michigan>>

\* band_to_frequency on the band codes of the two tables and on a code of
\* neither
CallBandToFrequency ==
  /\ call = NoCall
  /\ \E band \in { <<"L">>, <<"S">>, <<"C">>, <<"X">>, <<"K","u">>, <<"K">>,
                    <<"K","a">>, <<"Q">>, <<"V">>, <<"W">>, <<"D">>, <<"P">> } :
       /\ call' = Call("band_to_frequency", band)
       /\ result' = Returned([frequency |-> band_to_frequency(band)])
  /\ UNCHANGED <<cal_data, loaded, Files, parser, Michigan>>

\* frequency_to_band on the frequency band_to_frequency returned
CallFrequencyToBand ==
  /\ call.op = "band_to_frequency"
  /\ result.value.frequency # None
  /\ call' = Call("frequency_to_band", call.name)
  /\ result' = Returned([band |-> frequency_to_band(result.value.frequency)])
  /\ UNCHANGED <<cal_data, loaded, Files, parser, Michigan>>

\* VLA_name_xref(cal_data) on a calibrator dictionary
CallVLANameXref ==
  /\ call = NoCall
  /\ \E cal \in XrefInputs :
       \E keys \in KeyOrders(DOMAIN cal) :
         /\ call' = Call("VLA_name_xref", None)
         /\ result' = Returned(VLA_name_xref(cal, keys))
         /\ loaded' = Bound(cal)
  /\ UNCHANGED <<cal_data, Files, parser, Michigan>>

\* the caller takes the outcome
Return ==
  /\ call # NoCall
  /\ call' = NoCall
  /\ result' = NoResult
  /\ loaded' = NotBound
  /\ UNCHANGED <<cal_data, Files, parser, Michigan>>

Next ==
  \/ CallGetCalibratorFlux
  \/ CallGetPlanetFlux
  \/ CallGetCalData
  \/ CallFixIAUName
  \/ ResolveAgain
  \/ CallMatchIAUName
  \/ CallGetFluxData
  \/ CallInterpolateFlux
  \/ CallVLANameXref
  \/ CallBandToFrequency
  \/ CallFrequencyToBand
  \/ Return

Spec == Init /\ [][Next]_vars

-----------------------------------------------------------------------------
(* The state machine of module michigan: the module is imported, which      *)
(* loads table_links, then polate_flux is called.                           *)

InitMichigan ==
  /\ cal_data = << >>
  /\ vla_cals = "ok"
  /\ b_names = "ok"
  /\ c3_names = "ok"
  /\ call = NoCall
  /\ result = NoResult
  /\ michigan_tables \in FileStates
  /\ MichiganIdle
  /\ loaded = NotBound
  /\ parser = NoValue

\* import michigan: the statements at module level open and unpickle
\* michigan_tables.pkl; an exception leaves the module unimported
ImportMichigan ==
  /\ call = NoCall
  /\ table_links = Unbound
  /\ call' = Call("import michigan", None)
  /\ \/ /\ michigan_tables = "ok"
        /\ table_links' = "bound"
        /\ result' = Returned(NoValue)
     \/ /\ michigan_tables = "missing"
        /\ table_links' = Unbound
        /\ result' = Raised("IOError")
     \/ /\ michigan_tables = "corrupt"
        /\ table_links' = Unbound
        /\ result' = Raised("UnpicklingError")
  /\ UNCHANGED <<cal_data, loaded, Files, parser, michigan_tables, fetched, previous>>

CallPolateFlux ==
  /\ call = NoCall
  /\ table_links = "bound"
  /\ \E Jname \in MichiganNames, datenum \in Datenums, freq \in MichiganFreqs,
        served \in Tables \cup {Unreachable}, beyond \in Beyond :
       \E keys \in KeyOrders(IF served = Unreachable THEN {} ELSE DOMAIN served.times) :
         /\ call' = [Call("polate_flux", Jname) EXCEPT !.date = datenum, !.freq = freq]
         /\ fetched' = [table |-> served, keys |-> keys, beyond |-> beyond]
         /\ result' = polate_flux(Jname, datenum, Float(freq), served, keys, beyond)
  /\ UNCHANGED <<cal_data, loaded, Files, parser, michigan_tables, table_links, previous>>

\* the same query is made again after the database revised the history of a
\* channel; the rows come in the same order of frequencies
PolateFluxAgain ==
  /\ call.op = "polate_flux"
  /\ previous = NoValue
  /\ fetched.table # Unreachable
  /\ call.name \in MichiganSources
  /\ \E served \in Revisions(fetched.table) :
       /\ previous' = [fetched |-> fetched, result |-> result]
       /\ fetched' = [fetched EXCEPT !.table = served]
       /\ result' = polate_flux(call.name, call.date, Float(call.freq), served,
                                fetched.keys, fetched.beyond)
  /\ UNCHANGED <<cal_data, loaded, Files, parser, michigan_tables, table_links, call>>

\* the caller takes the outcome
ReturnMichigan ==
  /\ call # NoCall
  /\ call' = NoCall
  /\ result' = NoResult
  /\ fetched' = NoValue
  /\ previous' = NoValue
  /\ UNCHANGED <<cal_data, loaded, Files, parser, michigan_tables, table_links>>

NextMichigan ==
  \/ ImportMichigan
  \/ CallPolateFlux
  \/ PolateFluxAgain
  \/ ReturnMichigan

SpecMichigan == InitMichigan /\ [][NextMichigan]_vars

-----------------------------------------------------------------------------
(* The state machine of get_VLA_calibrators: the loop takes the lines of     *)
(* the list one at a time.                                                   *)

\* the lines fetched from the URL are any list of at most MaxLines lines
InitParser ==
  /\ cal_data = << >>
  /\ vla_cals = "missing"
  /\ b_names = "ok"
  /\ c3_names = "ok"
  /\ call = NoCall
  /\ result = NoResult
  /\ michigan_tables = "ok"
  /\ MichiganIdle
  /\ loaded = NotBound
  /\ parser \in { before_loop(catalog) :
                   catalog \in UNION { [1..n -> Lines] : n \in 0..MaxLines } }

\* for i in range(n_lines): one pass
ParseLine ==
  /\ parser.status = "loop"
  /\ parser.i < Len(parser.catalog)
  /\ parser' = parse_line(parser)
  /\ UNCHANGED <<cal_data, loaded, call, result, Files, Michigan>>

\* the loop has taken every line: return cal_data
EndOfLines ==
  /\ parser.status = "loop"
  /\ parser.i = Len(parser.catalog)
  /\ parser' = [parser EXCEPT !.status = "return"]
  /\ UNCHANGED <<cal_data, loaded, call, result, Files, Michigan>>

NextParser ==
  \/ ParseLine
  \/ EndOfLines

SpecParser == InitParser /\ [][NextParser]_vars

-----------------------------------------------------------------------------
(* Notions the claims are stated with *)

GetCalibratorFluxDone == call.op = "get_calibrator_flux"
FixDone == call.op = "fix_IAU_name"

\* the calibrator dictionary can be loaded
CatalogLoads == vla_cals # "corrupt"
SnapshotsReadable == vla_cals = "ok" /\ b_names = "ok" /\ c3_names = "ok"

\* the alternate names of the records of the calibrator dictionary
BNames == { cal_data[k].bname : k \in { j \in DOMAIN cal_data : has_key(cal_data[j], "bname") } }
C3Names == { cal_data[k].cat3c : k \in { j \in DOMAIN cal_data : has_key(cal_data[j], "cat3c") } }

HasPrefix(name, letter) == Len(name) >= 1 /\ lower(name[1]) = letter
HasIAUPrefix(name) == HasPrefix(name, "j") \/ HasPrefix(name, "b")
Has3CPrefix(name) == Len(name) >= 2 /\ name[1] = "3" /\ lower(name[2]) = "c"
Stripped(name) == IF HasIAUPrefix(name) THEN Tail(name) ELSE name
NoSign(name) == \A i \in 1..Len(name) : name[i] \notin {"+", "-"}

\* a planet name in any letter case
IsPlanetName(name) == in_list(Planets, capitalize(name))

\* a 3C, J or B designation, or a name without prefix, that the calibrator
\* dictionary or one of its cross-references holds
InCatalog(name) ==
  \/ HasPrefix(name, "j") /\ Tail(name) \in DOMAIN cal_data
  \/ HasPrefix(name, "b") /\ Tail(name) \in BNames
  \/ Has3CPrefix(name) /\ UpperStr(name) \in C3Names
  \/ name \in DOMAIN cal_data \cup BNames

NoDataPair == [flux |-> "None", ref |-> "None"]

-----------------------------------------------------------------------------
(* C1 - C3: get_calibrator_flux *)

\* C1: get_calibrator_flux returns a (flux, provenance) pair for every source
\* name, frequency and date, and never raises; the pair is (None, None)
\* exactly when the name is no planet name and no designation of the catalogue.
C1_AlwaysReturnsPair ==
  GetCalibratorFluxDone =>
    /\ result.status = "return"
    /\ (result.value = NoDataPair) <=> ~ (IsPlanetName(call.name) \/ InCatalog(call.name))

\* the provenance tags of the specification; the code spells "planet" "Planet"
Provenances == {"planet", "catalog-static", "catalog-variable", "None"}
SpecTag(ref) == IF ref = "Planet" THEN "planet" ELSE ref

\* the branch of get_calibrator_flux for 3C, J and B designations, taken
\* with a designation of the catalogue
OnCatalogPath(source) ==
  /\ ~ in_list(Planets, source)
  /\ Len(source) >= 2
  /\ (source[2] = "C" \/ source[1] = "J" \/ source[1] = "B")
  /\ InCatalog(source)

\* C2: a call of get_calibrator_flux on the catalogue path ends with a pair
\* that holds a flux; the provenance of every pair returned is "planet",
\* "catalog-static", "catalog-variable" or absent, and it is absent only
\* together with the flux.
C2_ProvenanceDefined ==
  GetCalibratorFluxDone =>
    /\ OnCatalogPath(call.name) =>
         result.status = "return" /\ result.value.flux # "None"
    /\ result.status = "return" =>
         /\ SpecTag(result.value.ref) \in Provenances
         /\ (result.value.ref = "None") <=> (result.value.flux = "None")

\* C3: for every planet name of Planets in any letter case, get_calibrator_flux
\* returns provenance "planet" and a flux greater than zero.
C3_PlanetsAnyCase ==
  (GetCalibratorFluxDone /\ IsPlanetName(call.name)) =>
    /\ result.status = "return"
    /\ SpecTag(result.value.ref) = "planet"
    /\ result.value.flux = "positive"

-----------------------------------------------------------------------------
(* C4 - C6: get_cal_data and fix_IAU_name *)

\* C4: with readable snapshot files, get_cal_data and fix_IAU_name return (a
\* record or name, or None) for every input string; they never raise.
C4_ResolverNeverRaises ==
  (SnapshotsReadable /\ call.op \in {"get_cal_data", "fix_IAU_name"}) =>
    result.status = "return"

\* C5 as claimed: a name fix_IAU_name returns is a key of the J-name-keyed
\* calibrator dictionary.
C5_ReturnsCatalogKey ==
  (FixDone /\ result.status = "return" /\ result.value.name # None) =>
    result.value.name \in DOMAIN cal_data

\* C5 amended: a name fix_IAU_name returns for a fragment that is not 8
\* characters long is a key of the index its type tag names (the calibrator
\* dictionary for 'j', the B-name cross-reference for 'b'); a fragment of 8
\* characters is returned as it is.
C5_ReturnsKeyOfTaggedIndex ==
  (FixDone /\ result.status = "return" /\ result.value.name # None) =>
    IF Len(Stripped(call.name)) = 8
    THEN result.value.name = Stripped(call.name)
    ELSE \/ result.value.type = "j" /\ result.value.name \in DOMAIN cal_data
         \/ result.value.type = "b" /\ result.value.name \in BNames

\* a truncated B name was resolved to a B name that is no key of the
\* calibrator dictionary
C5_Witness ==
  /\ FixDone /\ result.status = "return"
  /\ Len(Stripped(call.name)) # 8
  /\ result.value.type = "b"
  /\ result.value.name \in BNames \ DOMAIN cal_data

\* C6: for a 3C designation of the cross-reference, written 3C or 3c,
\* get_cal_data returns the record stored under the cross-referenced J name,
\* with the 3C_names snapshot loaded and with the cross-reference rebuilt.
C6_Resolves3C ==
  ( /\ call.op = "get_cal_data" /\ CatalogLoads /\ c3_names \in {"ok", "missing"}
    /\ Has3CPrefix(call.name) /\ UpperStr(call.name) \in C3Names ) =>
    /\ result.status = "return"
    /\ \E k \in DOMAIN cal_data :
         /\ has_key(cal_data[k], "cat3c") /\ cal_data[k].cat3c = UpperStr(call.name)
         /\ result.value = cal_data[k]

-----------------------------------------------------------------------------
(* C7 - C10: fix_IAU_name and match_IAU_name *)

\* the forms of a canonical J name k: with and without the prefix
CanonicalForms(k) == { k, <<"J">> \o k, <<"j">> \o k }

\* C7: with the calibrator dictionary loaded, fix_IAU_name given a key k of it,
\* with or without the J prefix, returns k, and given the returned name again
\* returns k again.
C7_Idempotent ==
  (FixDone /\ CatalogLoads) =>
    \A k \in DOMAIN cal_data :
      /\ call.name \in CanonicalForms(k) =>
           result.status = "return" /\ result.value.name = k
      /\ call.first \in CanonicalForms(k) =>
           call.name = k /\ result.status = "return" /\ result.value.name = k

\* a prefixed key was resolved, and the name returned was resolved again to
\* the same key
C7_Witness ==
  /\ FixDone
  /\ \E k \in DOMAIN cal_data :
       /\ call.first = <<"J">> \o k
       /\ call.name = k
       /\ result.status = "return" /\ result.value.name = k

\* a fragment HHMM, a sign and a declination of 2 digits (one short of a
\* catalogue name) or 4 digits (one over)
OneDigitOff(name) ==
  /\ Len(name) \in {7, 9}
  /\ \A i \in 1..4 : IsDigit(name[i])
  /\ name[5] \in {"+", "-"}
  /\ \A i \in 6..Len(name) : IsDigit(name[i])

\* n / 10 rounded to the nearest integer, n >= 0
Round10(n) == (n + 5) \div 10

\* the declination of the query and that of the catalogue name c, the longer
\* one rounded to the digits of the shorter, differ by less than 2
DecDifference(name, c) ==
  LET q == DigitsValue(SubSeq(name, 6, Len(name)))
      d == DigitsValue(SubSeq(c, 6, Len(c)))
  IN  IF Len(name) < Len(c) THEN Abs(q - Round10(d)) ELSE Abs(Round10(q) - d)
SameRA(name, c) == SubSeq(name, 1, 4) = SubSeq(c, 1, 4)

\* the names match_IAU_name was given: the J names or the B names
Candidates == IF call.space = "j" THEN DOMAIN cal_data ELSE BNames

\* C8: match_IAU_name given a query one declination digit short or one over
\* returns only a catalogue name with the RA part of the query whose rounded
\* declination difference is less than 2, and returns one when there is one.
C8_ApproximateMatch ==
  (call.op = "match_IAU_name" /\ OneDigitOff(call.name)) =>
    /\ result.status = "return"
    /\ result.value.name # None =>
         /\ result.value.name \in Candidates
         /\ SameRA(call.name, result.value.name)
         /\ DecDifference(call.name, result.value.name) < 2
    /\ (\E c \in Candidates : SameRA(call.name, c) /\ DecDifference(call.name, c) < 2)
         => result.value.name # None

\* a truncated query was matched although the list holds another name of the
\* same RA whose difference is 2 or more
C8_Witness ==
  /\ call.op = "match_IAU_name" /\ OneDigitOff(call.name) /\ Len(call.name) = 7
  /\ result.status = "return" /\ result.value.name # None
  /\ DecDifference(call.name, result.value.name) = 1
  /\ \E c \in Candidates : SameRA(call.name, c) /\ DecDifference(call.name, c) >= 2

\* C9: match_IAU_name and fix_IAU_name given a non-empty name whose fragment has
\* neither '+' nor '-' and is not 8 characters long return None: they neither
\* raise nor return a catalogue name.
C9_NoSignUnresolved ==
  LET fragment == IF FixDone THEN Stripped(call.name) ELSE call.name
  IN  ( /\ call.op \in {"match_IAU_name", "fix_IAU_name"} /\ CatalogLoads
        /\ Len(call.name) >= 1 /\ NoSign(fragment) /\ Len(fragment) # 8 ) =>
        /\ result.status = "return"
        /\ result.value.name = None

\* the catalogue names match_IAU_name accepts for a fragment
Accepted(fragment, names) ==
  { c \in names :
      /\ IAU_name_parts(c).ra_part = IAU_name_parts(fragment).ra_part
      /\ dec_close(IAU_name_parts(fragment).dec_part, IAU_name_parts(c).dec_part,
                   8 - Len(fragment)) = "yes" }

Unprefixed(name) == Len(name) >= 1 /\ ~ HasIAUPrefix(name)

-----------------------------------------------------------------------------
(* C11 - C13: interpolation in frequency and in time *)

PolateDone == call.op = "polate_flux"

\* polate_flux got a table for the source
TableServed ==
  /\ PolateDone
  /\ call.name \in MichiganSources
  /\ fetched.table # Unreachable

\* the guesses of the time loop of the call of polate_flux
Guesses ==
  time_loop(fetched.table, fetched.keys, call.date, fetched.beyond, 1, << >>, NotBound)

\* C11: with exactly one flux sample interpolation returns the flux of that
\* sample for every query frequency: interpolate_flux for a record with one
\* band, and the frequency step of polate_flux for a table of one channel.
C11_OneSampleUnchanged ==
  /\ ( /\ call.op = "interpolate_flux"
       /\ Cardinality(flux_keys(cal_data[call.name])) = 1 ) =>
       \E key \in flux_keys(cal_data[call.name]) :
         result = Returned([estimate |-> Float(cal_data[call.name][key])])
  /\ ( /\ TableServed
       /\ Cardinality(DOMAIN fetched.table.times) = 1
       /\ Guesses.status = "return" ) =>
       result = Returned([estimate |-> Guesses.value.guess[1]])

\* the record of a source holds no usable flux sample: no wavelength entry,
\* or only entries of 0.0
NoUsableSample(src_data) ==
  \A key \in DOMAIN src_data :
    key \in {"mm7", "mm36", "mm60", "mm200"} => src_data[key] = 0

Compared == PolateDone /\ previous # NoValue

\* the times of a channel as a set
TimesOf(table, key) == { table.times[key][i] : i \in 1..Len(table.times[key]) }

\* the start of the trailing window of a channel for a query after its last
\* sample: as far before the last sample as the query is after it
WindowStart(table, key, datenum) ==
  2 * table.times[key][Len(table.times[key])] - datenum

\* the samples two histories A and B share that are nearest to time v in
\* both, no earlier sample of either being as near
Anchors(A, B, v) ==
  { s \in A \cap B :
      \A t \in A \cup B : /\ t < s => Abs(t - v) > Abs(s - v)
                          /\ t > s => Abs(t - v) >= Abs(s - v) }

-----------------------------------------------------------------------------
(* C14 - C16: the loaded catalogue, its files, and names of 8 characters *)

\* get_cal_data or fix_IAU_name has been called with the calibrator
\* dictionary loaded
ResolutionDone == call.op \in {"get_cal_data", "fix_IAU_name"} /\ loaded # NotBound

C15_SnapshotFailureSurfaced ==
  /\ ( /\ call.op = "import michigan"
       /\ michigan_tables # "ok" ) =>
       (result.status = "raise" => result.exc = "CatalogUnavailable")
  /\ ( /\ call.op = "get_cal_data"
       /\ \/ vla_cals # "ok"
          \/ Len(call.name) > 0 /\ lower(call.name[1]) = "b" /\ b_names # "ok"
          \/ /\ Len(call.name) > 1
             /\ lower(call.name[1]) = "3" /\ lower(call.name[2]) = "c"
             /\ c3_names # "ok" ) =>
       result.exc \notin {"IOError", "UnpicklingError"}

\* the index of the type of a name: the J names for a prefix j, the B names
\* for a prefix b, both for a name without prefix
IndexOfType(name) ==
  IF HasPrefix(name, "j") THEN DOMAIN cal_data
  ELSE IF HasPrefix(name, "b") THEN BNames
  ELSE DOMAIN cal_data \cup BNames

\* C16 as stated: a fragment of 8 characters after the prefix is stripped is
\* returned by fix_IAU_name only when the index of its type holds it, and
\* gives None when the index does not.
C16_EightCharsLookedUp ==
  ( /\ FixDone /\ CatalogLoads /\ result.status = "return"
    /\ Len(Stripped(call.name)) = 8 ) =>
    result.value.name =
      IF Stripped(call.name) \in IndexOfType(call.name)
      THEN Stripped(call.name) ELSE None

\* C16, amended: a fragment of 8 characters after the prefix is stripped is
\* returned by fix_IAU_name as it is, with the prefix in lower case as its
\* type (None without prefix), whether or not an index holds it.
C16_EightCharsReturnedAsGiven ==
  ( /\ FixDone /\ CatalogLoads
    /\ Len(Stripped(call.name)) = 8 ) =>
    result = Returned([name |-> Stripped(call.name),
                       type |-> IF HasPrefix(call.name, "j") THEN "j"
                                ELSE IF HasPrefix(call.name, "b") THEN "b"
                                ELSE "None"])

\* C16: a fragment of 8 characters with prefix J that is no key of the
\* calibrator dictionary came back as the name
C16_Witness ==
  /\ FixDone /\ CatalogLoads
  /\ HasPrefix(call.name, "j") /\ call.name[1] = "J"
  /\ Len(Stripped(call.name)) = 8
  /\ Stripped(call.name) \notin DOMAIN cal_data
  /\ result.status = "return"
  /\ result.value = [name |-> Stripped(call.name), type |-> "j"]

-----------------------------------------------------------------------------
(* C17 - C20: the samples polate_flux fits for a channel *)

\* the slice the call of polate_flux fits for the channel key, with timedelta
\* bound as given when the pass for the channel begins
WindowOf(key, timedelta) ==
  select_window(fetched.table.times[key], call.date, timedelta, fetched.beyond)

\* i is the (1-based) position of a sample of datenums nearest to time v
IsNearest(datenums, i, v) ==
  /\ i \in 1..Len(datenums)
  /\ \A j \in 1..Len(datenums) : Abs(datenums[i] - v) <= Abs(datenums[j] - v)

\* C17: for a query after the last sample of a channel, the samples fitted
\* run from a sample nearest to t_last - (query - t_last) through the last
\* sample, the last sample included.
C17_TrailingWindow ==
  TableServed =>
    \A key \in DOMAIN fetched.table.times :
      LET datenums == fetched.table.times[key]
          window   == WindowOf(key, NotBound)
      IN  call.date > datenums[Len(datenums)] =>
            /\ window.branch = "forward"
            /\ IsNearest(datenums, window.first + 1,
                         WindowStart(fetched.table, key, call.date))
            /\ window.stop = Len(datenums)

\* C18: for a query before the first sample of a channel, the samples fitted
\* run from the first sample through a sample nearest to
\* t_first + (t_first - query), and the pass for the channel gives an estimate
\* whether or not a pass before it extrapolated forward: no UnboundLocalError
\* ends the call.
C18_LeadingWindow ==
  TableServed =>
    /\ result.exc # "UnboundLocalError"
    /\ \A key \in DOMAIN fetched.table.times :
         LET datenums == fetched.table.times[key]
             window   == WindowOf(key, NotBound)
         IN  call.date < datenums[1] =>
               /\ window.status = "ok"
               /\ window.first = 0
               /\ IsNearest(datenums, window.stop, 2 * datenums[1] - call.date)

\* C19: for a query within the sample range of a channel, the samples fitted
\* are those at the indices max(n-4, 0) through min(n+4, last), both included,
\* n being the index of a sample nearest to the query: the nearest sample is
\* among them and they are 9 at most.
C19_InsideWindow ==
  TableServed =>
    \A key \in DOMAIN fetched.table.times :
      LET datenums == fetched.table.times[key]
          last     == Len(datenums) - 1
          window   == WindowOf(key, NotBound)
      IN  (call.date >= datenums[1] /\ call.date <= datenums[last + 1]) =>
            \E n \in 0..last :
              /\ IsNearest(datenums, n + 1, call.date)
              /\ window.first = Max2(n - 4, 0)
              /\ window.stop = (IF n + 4 < last THEN n + 4 ELSE last) + 1
              /\ window.first <= n /\ n < window.stop
              /\ window.stop - window.first <= 9

\* C20: for a channel of at least 2 samples and any query date, the slice
\* polate_flux fits holds at least 2 samples: the fit of first degree is
\* determined, and the slice is never empty.
C20_WindowDetermined ==
  TableServed =>
    \A key \in DOMAIN fetched.table.times :
      LET window == WindowOf(key, NotBound)
      IN  Len(fetched.table.times[key]) >= 2 =>
            window.stop - window.first >= 2

-----------------------------------------------------------------------------
(* C21 - C25 *)

\* C21: when the time loop of polate_flux has made its guesses, the guess for
\* each channel is the one the loop makes for a table holding that channel
\* alone: it depends on the samples of the channel and on the query date, not
\* on the other channels nor on the order in which the channels are visited.
C21_ChannelsIndependent ==
  (TableServed /\ Guesses.status = "return") =>
    \A i \in 1..Len(fetched.keys) :
      time_loop(fetched.table, <<fetched.keys[i]>>, call.date, fetched.beyond,
                1, << >>, NotBound)
        = Returned([guess |-> <<Guesses.value.guess[i]>>])

\* the map xref of VLA_name_xref is made of the field of the records of data:
\* it sends the name of every record that has the field to a key whose record
\* has that name, and holds no other name
MadeOfRecords(xref, data, field) ==
  /\ \A k \in DOMAIN data :
       has_key(data[k], field) => has_key(xref, data[k][field])
  /\ \A n \in DOMAIN xref :
       /\ has_key(data, xref[n])
       /\ has_key(data[xref[n]], field)
       /\ data[xref[n]][field] = n

\* C22: the two dictionaries VLA_name_xref returns are made of the records
\* alone: the B names of the 'bname' entries and the 3C names of the 'cat3c'
\* entries, each sent to a key of the calibrator dictionary whose record has
\* that name, and no name that no record has.
C22_XrefFromRecords ==
  call.op = "VLA_name_xref" =>
    /\ MadeOfRecords(result.value.Bname_dict, loaded[1], "bname")
    /\ MadeOfRecords(result.value.cat_3C_dict, loaded[1], "cat3c")

\* C22: VLA_name_xref was given a dictionary in which 1012+531 and 1009+535
\* have the same B name, and returned a B-name dictionary that holds it
C22_Witness ==
  /\ call.op = "VLA_name_xref"
  /\ {J1012p531, J1009p535} \subseteq DOMAIN loaded[1]
  /\ has_key(loaded[1][J1009p535], "bname")
  /\ loaded[1][J1009p535].bname = loaded[1][J1012p531].bname
  /\ result.value.Bname_dict[B1009p533] \in {J1012p531, J1009p535}

\* C23: a name match_IAU_name returns for a query one declination digit
\* short or one over has the declination sign of the query.
C23_SignPreserved ==
  ( /\ call.op = "match_IAU_name" /\ OneDigitOff(call.name)
    /\ result.status = "return" /\ result.value.name # None ) =>
    result.value.name[5] = call.name[5]

\* C24: a line the loop of get_VLA_calibrators takes as a row of the flux
\* table comes after a separator of '=' with no line of white space between
\* the two: after a blank line no line is parsed as a flux row until the next
\* separator has been read.
C24_BlankLineEndsFluxes ==
  (parser # NoValue /\ parser.branch = "flux") =>
    \E j \in 1..(parser.i - 1) :
      /\ parser.catalog[j] = "=="
      /\ \A k \in (j + 1)..(parser.i - 1) : parser.catalog[k] # " "

\* C25: for a band code band_to_frequency has a nominal frequency for,
\* frequency_to_band of that frequency is the band code.
C25_BandsRoundTrip ==
  call.op = "frequency_to_band" => result.value.band = call.name

====
